---- MODULE Spec2Model ----
(***************************************************************************)
(* Race simulation core of rosie-races (src/game/scenes/RaceScene.ts).     *)
(*                                                                         *)
(* Numbers are fixed point: positions are in 1/100 px, velocities and AI   *)
(* speeds in 1/100 px per second, times in ms.  Ratios of TRACK_CONFIG are *)
(* in 1/1000, FRICTION and the speed scale in 1/100.                       *)
(***************************************************************************)
EXTENDS Integers, Sequences, FiniteSets, TLC

VARIABLES
    gameState,            \* RaceScene.gameState
    raceStartTime,        \* RaceScene.raceStartTime
    velocity,             \* RaceScene.velocity
    hasStarted,           \* RaceScene.hasStarted
    hasFinished,          \* RaceScene.hasFinished
    rosieX,               \* RaceScene.rosie.x
    rosieFinishTime,      \* RaceScene.rosieFinishTime
    rosieFinishPosition,  \* RaceScene.rosieFinishPosition
    nextFinishPosition,   \* RaceScene.nextFinishPosition
    isPaused,             \* RaceScene.isPaused
    passedCheckpoints,    \* RaceScene.passedCheckpoints
    competitors,          \* RaceScene.competitors
    speedScale,           \* RaceScene.speedScale
    countdownTimer,       \* firings left of RaceScene.countdownTimer (0: none)
    count,                \* the closure variable count of startCountdown
    delayedCalls,         \* pending time.delayedCall(500, startRacing) callbacks
    now,                  \* the clock (performance.now(), update's time)
    frames,               \* number of frames the host has run
    taps,                 \* number of taps the host has sent since the last frame
    restarts,             \* number of restarts the host has sent
    emitted,              \* notifications emitted by the handler that ran last
    queried,              \* what getRacePositions returned since the last event
    modal                 \* GameContext.currentProblem and the MathModal that shows it

vars == <<gameState, raceStartTime, velocity, hasStarted, hasFinished, rosieX,
          rosieFinishTime, rosieFinishPosition, nextFinishPosition, isPaused,
          passedCheckpoints, competitors, speedScale, countdownTimer, count,
          delayedCalls, now, frames, taps, restarts, emitted, queried, modal>>

----------------------------------------------------------------------------
(* Bounds of the model *)

MaxFrames == 3
MaxTaps == 3
MaxRestarts == 1
MaxSprintTaps == 21
MaxSprintFrames == 1
MaxSettingsFrames == 2
MaxQuizFrames == 2
MaxQueryFrames == 2
MaxQueries == 2
MaxCoastFrames == 340
MaxModalFrames == 2
MaxRestartFrames == 2
MaxLiveFrames == 4
MaxClicks == 2
NumRacers == 2

(* the host's frame times (ms), the wall-clock answers, the speed scales *)
DeltaSet == {25000}
TimeTakenSet == {2999, 3000}
ScaleSet == {70, 140}
ShortDeltaSet == {16}
ProblemIds == {"3 + 5 = ?-8", "2 + 2 = ?-4"}

----------------------------------------------------------------------------
(* Program constants *)

null == -1

START_LINE_RATIO == 65
FINISH_LINE_RATIO == 850
ROSIE_START_RATIO == 30
POSITION_RATIOS == <<1, 2>>
POSITION_RATIO_DENOMINATOR == 3
FAST_ANSWER_THRESHOLD == 3000
FAST_ANSWER_BOOST == 50
SLOW_ANSWER_BOOST == 20
TAP_VELOCITY_BOOST == 15
MAX_VELOCITY == 300
FRICTION == 98
SPEED_VARIATION_INTERVAL == 2000
SPEED_VARIATION_AMOUNT == 5
START_COUNT == 3
INTERVAL_MS == 1000
SPEED_SCALE == 70
VARIANCE_FACTOR == 50
scaleWidth == 1024

FAMILY_MEMBERS ==
    << [id |-> "mommy", baseMinSpeed |-> 35, baseMaxSpeed |-> 55],
       [id |-> "daddy", baseMinSpeed |-> 40, baseMaxSpeed |-> 58] >>

----------------------------------------------------------------------------
(* Helpers *)

Min(a, b) == IF a <= b THEN a ELSE b
Max(a, b) == IF a >= b THEN a ELSE b
Clamp(value, lo, hi) == Min(Max(value, lo), hi)

(* 1 px (or 1 px/s) in fixed point *)
Px(n) == n * 100

startLineX == (Px(scaleWidth) * START_LINE_RATIO) \div 1000
finishLineX == (Px(scaleWidth) * FINISH_LINE_RATIO) \div 1000
rosieStartX == (Px(scaleWidth) * ROSIE_START_RATIO) \div 1000
trackLength == finishLineX - startLineX
checkpointPositions ==
    [i \in 1..Len(POSITION_RATIOS) |->
        startLineX + (trackLength * POSITION_RATIOS[i]) \div POSITION_RATIO_DENOMINATOR]

getMinSpeed(member, scale) ==
    (member.baseMinSpeed * scale * (100 - VARIANCE_FACTOR)) \div 100
getMaxSpeed(member, scale) == member.baseMaxSpeed * scale

(* Phaser.Math.FloatBetween(lo, hi): the ends of the range stand for it *)
FloatBetween(lo, hi) == {lo, hi}

Range(f) == {f[i] : i \in DOMAIN f}

(* [...FAMILY_MEMBERS].sort(() => Math.random() - 0.5): the copy in any order *)
shuffled(members) ==
    {[i \in 1..Len(members) |-> members[p[i]]] : p \in Permutations(1..Len(members))}

(* getRandomRacers that draws every racer anew from FAMILY_MEMBERS *)
getRandomRacers_WithRepeats(n) ==
    [1..Min(n, Len(FAMILY_MEMBERS)) -> Range(FAMILY_MEMBERS)]

(* getRandomRacers(n): a shuffle of FAMILY_MEMBERS cut to min(n, length) *)
getRandomRacers(n) ==
    {SubSeq(sh, 1, Min(n, Len(FAMILY_MEMBERS))) : sh \in shuffled(FAMILY_MEMBERS)}

----------------------------------------------------------------------------
(* The scene as one record, so that a handler is a function of the scene *)

Scene ==
    [gameState |-> gameState, raceStartTime |-> raceStartTime,
     velocity |-> velocity, hasStarted |-> hasStarted,
     hasFinished |-> hasFinished, rosieX |-> rosieX,
     rosieFinishTime |-> rosieFinishTime,
     rosieFinishPosition |-> rosieFinishPosition,
     nextFinishPosition |-> nextFinishPosition, isPaused |-> isPaused,
     passedCheckpoints |-> passedCheckpoints, competitors |-> competitors,
     speedScale |-> speedScale, countdownTimer |-> countdownTimer,
     count |-> count, delayedCalls |-> delayedCalls, emitted |-> << >>]

SceneBecomes(s) ==
    /\ gameState' = s.gameState
    /\ raceStartTime' = s.raceStartTime
    /\ velocity' = s.velocity
    /\ hasStarted' = s.hasStarted
    /\ hasFinished' = s.hasFinished
    /\ rosieX' = s.rosieX
    /\ rosieFinishTime' = s.rosieFinishTime
    /\ rosieFinishPosition' = s.rosieFinishPosition
    /\ nextFinishPosition' = s.nextFinishPosition
    /\ isPaused' = s.isPaused
    /\ passedCheckpoints' = s.passedCheckpoints
    /\ competitors' = s.competitors
    /\ speedScale' = s.speedScale
    /\ countdownTimer' = s.countdownTimer
    /\ count' = s.count
    /\ delayedCalls' = s.delayedCalls
    /\ emitted' = s.emitted
    /\ queried' = << >>

(* a handler of the scene ran and the host's quiz modal is left alone *)
Becomes(s) == SceneBecomes(s) /\ UNCHANGED modal

(* game.events.emit *)
Event(type, state, n, flag, results) ==
    [type |-> type, state |-> state, n |-> n, flag |-> flag, results |-> results]
Emit(s, e) == [s EXCEPT !.emitted = Append(@, e)]

emitGameState(s) == Emit(s, Event("stateChanged", s.gameState, 0, FALSE, << >>))
setGameState(s, newState) == emitGameState([s EXCEPT !.gameState = newState])

----------------------------------------------------------------------------
(* Results *)

positionOr999(r) == IF r.position = null THEN 999 ELSE r.position

RECURSIVE insertByPosition(_, _)
insertByPosition(sorted, r) ==
    IF sorted = << >> THEN <<r>>
    ELSE IF positionOr999(r) < positionOr999(sorted[1])
         THEN <<r>> \o sorted
         ELSE <<sorted[1]>> \o insertByPosition(Tail(sorted), r)

(* Array.prototype.sort with (a.position ?? 999) - (b.position ?? 999): stable *)
RECURSIVE sortByPosition(_)
sortByPosition(rs) ==
    IF rs = << >> THEN << >>
    ELSE insertByPosition(sortByPosition(SubSeq(rs, 1, Len(rs) - 1)), rs[Len(rs)])

rosieResult(s) ==
    [name |-> "Rosie", finishTime |-> s.rosieFinishTime,
     position |-> s.rosieFinishPosition, isRosie |-> TRUE]
competitorResult(c) ==
    [name |-> c.familyMember.id, finishTime |-> c.finishTime,
     position |-> c.finishPosition, isRosie |-> FALSE]

(* compileCurrentRaceResults without the sort of the finished racers *)
compileCurrentRaceResults_Unsorted(s) ==
    LET all == [i \in 1..Len(s.competitors) |-> competitorResult(s.competitors[i])]
        finished == <<rosieResult(s)>> \o SelectSeq(all, LAMBDA r : r.finishTime # null)
        stillRacing == SelectSeq(all, LAMBDA r : r.finishTime = null)
    IN finished \o stillRacing

compileCurrentRaceResults(s) ==
    LET all == [i \in 1..Len(s.competitors) |-> competitorResult(s.competitors[i])]
        finished == <<rosieResult(s)>> \o SelectSeq(all, LAMBDA r : r.finishTime # null)
        stillRacing == SelectSeq(all, LAMBDA r : r.finishTime = null)
    IN sortByPosition(finished) \o stillRacing

compileRaceResults(s) ==
    sortByPosition(<<rosieResult(s)>> \o
        [i \in 1..Len(s.competitors) |-> competitorResult(s.competitors[i])])

(* Array.prototype.sort with b.x - a.x: descending, stable *)
RECURSIVE insertByX(_, _)
insertByX(sorted, r) ==
    IF sorted = << >> THEN <<r>>
    ELSE IF r.x > sorted[1].x
         THEN <<r>> \o sorted
         ELSE <<sorted[1]>> \o insertByX(Tail(sorted), r)

RECURSIVE sortByX(_)
sortByX(rs) ==
    IF rs = << >> THEN << >>
    ELSE insertByX(sortByX(SubSeq(rs, 1, Len(rs) - 1)), rs[Len(rs)])

getRacePositions(s) ==
    LET racers == <<[name |-> "Rosie", x |-> s.rosieX]>> \o
                  [i \in 1..Len(s.competitors) |->
                      [name |-> s.competitors[i].familyMember.id,
                       x |-> s.competitors[i].x]]
        sorted == sortByX(racers)
    IN [index \in 1..Len(sorted) |->
           [name |-> sorted[index].name, x |-> sorted[index].x,
            position |-> index]]

allCompetitorsFinished(s) ==
    \A i \in 1..Len(s.competitors) : s.competitors[i].finishTime # null

(* emitRaceResultsUpdate without the setGameState('finished') *)
emitRaceResultsUpdate_NoStateChange(s) ==
    LET results == compileCurrentRaceResults(s)
        allFinished == allCompetitorsFinished(s)
    IN Emit(s, Event("resultsUpdated", "", 0, allFinished, results))

emitRaceResultsUpdate(s) ==
    LET results == compileCurrentRaceResults(s)
        allFinished == allCompetitorsFinished(s)
        s1 == Emit(s, Event("resultsUpdated", "", 0, allFinished, results))
    IN IF allFinished THEN setGameState(s1, "finished") ELSE s1

checkAllRacersFinished(s) ==
    IF s.rosieFinishTime = null THEN s
    ELSE IF ~allCompetitorsFinished(s) THEN s
    ELSE LET results == compileRaceResults(s)
             s1 == setGameState(s, "finished")
         IN Emit(s1, Event("allRacersFinished", "", 0, FALSE, results))

----------------------------------------------------------------------------
(* Competitors *)

createCompetitor(familyMember, speed) ==
    [familyMember |-> familyMember, x |-> rosieStartX, speed |-> speed,
     lastSpeedChangeTime |-> 0, finishTime |-> null, finishPosition |-> null]

(* the competitor lists createCompetitors can build from a roster *)
createCompetitors(racers, scale) ==
    {cs \in [1..Len(racers) ->
              UNION {{createCompetitor(racers[i], sp) :
                        sp \in FloatBetween(getMinSpeed(racers[i], scale),
                                            getMaxSpeed(racers[i], scale))} :
                     i \in 1..Len(racers)}] :
        \A i \in 1..Len(racers) : cs[i].familyMember = racers[i]}

(* updateCompetitors without the clamp to the track bounds *)
updateCompetitor_NoClamp(c, scale, time, delta, variation) ==
    IF c.finishTime # null THEN c
    ELSE LET last0 == IF c.lastSpeedChangeTime = 0 THEN time ELSE c.lastSpeedChangeTime
             due == time - last0 >= SPEED_VARIATION_INTERVAL
             last1 == IF due THEN time ELSE last0
             speed1 == IF due
                       THEN Clamp(c.speed + variation,
                                  getMinSpeed(c.familyMember, scale),
                                  getMaxSpeed(c.familyMember, scale))
                       ELSE c.speed
             x1 == c.x + (speed1 * delta) \div 1000
         IN [c EXCEPT !.lastSpeedChangeTime = last1, !.speed = speed1, !.x = x1]

(* updateCompetitors without the clamp of the speed *)
updateCompetitor_NoSpeedClamp(c, scale, time, delta, variation) ==
    IF c.finishTime # null THEN c
    ELSE LET last0 == IF c.lastSpeedChangeTime = 0 THEN time ELSE c.lastSpeedChangeTime
             due == time - last0 >= SPEED_VARIATION_INTERVAL
             last1 == IF due THEN time ELSE last0
             speed1 == IF due THEN c.speed + variation ELSE c.speed
             x1 == Clamp(c.x + (speed1 * delta) \div 1000, rosieStartX, finishLineX)
         IN [c EXCEPT !.lastSpeedChangeTime = last1, !.speed = speed1, !.x = x1]

updateCompetitor(c, scale, time, delta, variation) ==
    IF c.finishTime # null THEN c
    ELSE LET last0 == IF c.lastSpeedChangeTime = 0 THEN time ELSE c.lastSpeedChangeTime
             due == time - last0 >= SPEED_VARIATION_INTERVAL
             last1 == IF due THEN time ELSE last0
             speed1 == IF due
                       THEN Clamp(c.speed + variation,
                                  getMinSpeed(c.familyMember, scale),
                                  getMaxSpeed(c.familyMember, scale))
                       ELSE c.speed
             x1 == Clamp(c.x + (speed1 * delta) \div 1000, rosieStartX, finishLineX)
         IN [c EXCEPT !.lastSpeedChangeTime = last1, !.speed = speed1, !.x = x1]

updateCompetitors(s, time, delta, variations) ==
    [s EXCEPT !.competitors =
        [i \in 1..Len(s.competitors) |->
            updateCompetitor(s.competitors[i], s.speedScale, time, delta, variations[i])]]

(* crossesNow without the already-finished guard *)
crossesNow_NoGuard(c) == c.x >= finishLineX

crossesNow(c) == c.finishTime = null /\ c.x >= finishLineX

RECURSIVE finishFrom(_, _, _, _)
finishFrom(cs, i, next, finishTime) ==
    IF i > Len(cs) THEN [competitors |-> cs, next |-> next]
    ELSE IF crossesNow(cs[i])
         THEN finishFrom([cs EXCEPT ![i].finishTime = finishTime,
                                    ![i].finishPosition = next],
                         i + 1, next + 1, finishTime)
         ELSE finishFrom(cs, i + 1, next, finishTime)

(* checkCompetitorFinishes without the rosieFinishTime !== null test *)
checkCompetitorFinishes_NoRosieTest(s, time) ==
    LET anyFinished == \E i \in 1..Len(s.competitors) : crossesNow(s.competitors[i])
        r == finishFrom(s.competitors, 1, s.nextFinishPosition, time - s.raceStartTime)
        s1 == [s EXCEPT !.competitors = r.competitors, !.nextFinishPosition = r.next]
    IN IF anyFinished THEN emitRaceResultsUpdate(s1) ELSE s1

(* checkCompetitorFinishes without the emitRaceResultsUpdate *)
checkCompetitorFinishes_NoUpdate(s, time) ==
    LET r == finishFrom(s.competitors, 1, s.nextFinishPosition, time - s.raceStartTime)
    IN [s EXCEPT !.competitors = r.competitors, !.nextFinishPosition = r.next]

checkCompetitorFinishes(s, time) ==
    LET anyFinished == \E i \in 1..Len(s.competitors) : crossesNow(s.competitors[i])
        r == finishFrom(s.competitors, 1, s.nextFinishPosition, time - s.raceStartTime)
        s1 == [s EXCEPT !.competitors = r.competitors, !.nextFinishPosition = r.next]
    IN IF anyFinished /\ s1.rosieFinishTime # null THEN emitRaceResultsUpdate(s1) ELSE s1

----------------------------------------------------------------------------
(* Rosie *)

(* handleRosieFinish without nextFinishPosition++ *)
handleRosieFinish_NoIncrement(s, time) ==
    LET s1 == [s EXCEPT !.rosieFinishTime = time - s.raceStartTime,
                        !.rosieFinishPosition = s.nextFinishPosition,
                        !.hasFinished = TRUE,
                        !.velocity = 0]
        s2 == Emit(s1, Event("raceFinished", "", 0, FALSE, << >>))
    IN emitRaceResultsUpdate(s2)

handleRosieFinish(s, time) ==
    LET s1 == [s EXCEPT !.rosieFinishTime = time - s.raceStartTime,
                        !.rosieFinishPosition = s.nextFinishPosition,
                        !.nextFinishPosition = s.nextFinishPosition + 1,
                        !.hasFinished = TRUE,
                        !.velocity = 0]
        s2 == Emit(s1, Event("raceFinished", "", 0, FALSE, << >>))
    IN emitRaceResultsUpdate(s2)

RECURSIVE checkpointFrom(_, _)
checkpointFrom(s, index) ==
    IF index > Len(checkpointPositions) THEN s
    ELSE IF ~s.passedCheckpoints[index] /\ s.rosieX >= checkpointPositions[index]
         THEN checkpointFrom(
                 Emit([s EXCEPT !.passedCheckpoints[index] = TRUE,
                                !.isPaused = TRUE,
                                !.velocity = 0],
                      Event("quizRequested", "", index, FALSE, << >>)),
                 index + 1)
         ELSE checkpointFrom(s, index + 1)

(* checkForCheckpoint that pauses Rosie without stopping her *)
checkForCheckpoint_KeepsVelocity(s) ==
    [checkpointFrom(s, 1) EXCEPT !.velocity = s.velocity]

(* checkForCheckpoint that stops at the first checkpoint it marks *)
checkForCheckpoint_FirstOnly(s) ==
    LET reached == {i \in 1..Len(checkpointPositions) :
                       ~s.passedCheckpoints[i] /\ s.rosieX >= checkpointPositions[i]}
    IN IF reached = {} THEN s
       ELSE LET index == CHOOSE i \in reached : \A j \in reached : i <= j
            IN Emit([s EXCEPT !.passedCheckpoints[index] = TRUE,
                              !.isPaused = TRUE,
                              !.velocity = 0],
                    Event("quizRequested", "", index, FALSE, << >>))

checkForCheckpoint(s) == checkpointFrom(s, 1)

(* friction without the snap of small velocities to 0 *)
applyFriction_NoSnap(v) == (v * FRICTION) \div 100

applyFriction(v) ==
    LET v1 == (v * FRICTION) \div 100
    IN IF v1 < 10 THEN 0 ELSE v1

(* moveRosie that measures the move from the start position *)
moveRosie_FromStart(s, time, delta) ==
    IF s.velocity > 0
    THEN LET x1 == Clamp(rosieStartX + (s.velocity * delta) \div 1000,
                         rosieStartX, finishLineX)
             s1 == checkForCheckpoint([s EXCEPT !.rosieX = x1])
         IN IF s1.rosieX >= finishLineX /\ s1.rosieFinishTime = null
            THEN handleRosieFinish(s1, time)
            ELSE s1
    ELSE s

(* moveRosie whose finish test does not look at rosieFinishTime *)
moveRosie_FinishesAgain(s, time, delta) ==
    IF s.velocity > 0
    THEN LET x1 == Clamp(s.rosieX + (s.velocity * delta) \div 1000,
                         rosieStartX, finishLineX)
             s1 == checkForCheckpoint([s EXCEPT !.rosieX = x1])
         IN IF s1.rosieX >= finishLineX
            THEN handleRosieFinish(s1, time)
            ELSE s1
    ELSE s

moveRosie(s, time, delta) ==
    IF s.velocity > 0
    THEN LET x1 == Clamp(s.rosieX + (s.velocity * delta) \div 1000,
                         rosieStartX, finishLineX)
             s1 == checkForCheckpoint([s EXCEPT !.rosieX = x1])
         IN IF s1.rosieX >= finishLineX /\ s1.rosieFinishTime = null
            THEN handleRosieFinish(s1, time)
            ELSE s1
    ELSE s

(* update without the return outside racing and paused *)
update_NoStateTest(s, time, delta, variations) ==
    LET s1 == updateCompetitors(s, time, delta, variations)
        s2 == checkCompetitorFinishes(s1, time)
    IN IF s2.isPaused THEN s2
       ELSE LET s3 == [s2 EXCEPT !.velocity = applyFriction(s2.velocity)]
                s4 == moveRosie(s3, time, delta)
            IN checkAllRacersFinished(s4)

(* update that returns in state finished only *)
update_OnlyFinishedTest(s, time, delta, variations) ==
    IF s.gameState = "finished" THEN s
    ELSE LET s1 == updateCompetitors(s, time, delta, variations)
             s2 == checkCompetitorFinishes(s1, time)
         IN IF s2.isPaused THEN s2
            ELSE LET s3 == [s2 EXCEPT !.velocity = applyFriction(s2.velocity)]
                     s4 == moveRosie(s3, time, delta)
                 IN checkAllRacersFinished(s4)

update(s, time, delta, variations) ==
    IF s.gameState # "racing" /\ s.gameState # "paused" THEN s
    ELSE LET s1 == updateCompetitors(s, time, delta, variations)
             s2 == checkCompetitorFinishes(s1, time)
         IN IF s2.isPaused THEN s2
            ELSE LET s3 == [s2 EXCEPT !.velocity = applyFriction(s2.velocity)]
                     s4 == moveRosie(s3, time, delta)
                 IN checkAllRacersFinished(s4)

----------------------------------------------------------------------------
(* Countdown *)

(* startCountdown without the first COUNTDOWN_TICK *)
startCountdown_NoFirstTick(s) ==
    LET s1 == setGameState(s, "countdown")
    IN [s1 EXCEPT !.count = START_COUNT, !.countdownTimer = START_COUNT + 1]

startCountdown(s) ==
    LET s1 == setGameState(s, "countdown")
        s2 == Emit(s1, Event("countdownTick", "", START_COUNT, FALSE, << >>))
    IN [s2 EXCEPT !.count = START_COUNT, !.countdownTimer = START_COUNT + 1]

(* the callback of the countdown timer; repeat: START_COUNT fires it START_COUNT + 1 times *)
countdownCallback(s) ==
    LET c == s.count - 1
        s1 == [s EXCEPT !.count = c, !.countdownTimer = s.countdownTimer - 1]
    IN IF c > 0 THEN Emit(s1, Event("countdownTick", "", c, FALSE, << >>))
       ELSE IF c = 0
            THEN [Emit(s1, Event("countdownTick", "", 0, FALSE, << >>))
                    EXCEPT !.delayedCalls = s1.delayedCalls + 1]
            ELSE s1

startRacing(s, time) ==
    LET s1 == setGameState(s, "racing")
        s2 == [s1 EXCEPT !.hasStarted = TRUE, !.raceStartTime = time]
    IN Emit(s2, Event("raceStarted", "", 0, FALSE, << >>))

----------------------------------------------------------------------------
(* Input handlers *)

(* handleTap without the Math.min cap *)
handleTap_NoCap(s) ==
    IF s.gameState = "ready" THEN startCountdown(s)
    ELSE IF s.gameState = "countdown" THEN s
    ELSE IF s.gameState = "finished" \/ s.hasFinished THEN s
    ELSE IF s.isPaused THEN s
    ELSE IF s.gameState = "racing"
         THEN [s EXCEPT !.velocity = s.velocity + Px(TAP_VELOCITY_BOOST)]
         ELSE s

(* handleTap without the return while paused at a checkpoint *)
handleTap_WhilePaused(s) ==
    IF s.gameState = "ready" THEN startCountdown(s)
    ELSE IF s.gameState = "countdown" THEN s
    ELSE IF s.gameState = "finished" \/ s.hasFinished THEN s
    ELSE IF s.gameState = "racing"
         THEN [s EXCEPT !.velocity =
                  Min(s.velocity + Px(TAP_VELOCITY_BOOST), Px(MAX_VELOCITY))]
         ELSE s

(* handleTap that sets the boost instead of adding it *)
handleTap_SetsBoost(s) ==
    IF s.gameState = "ready" THEN startCountdown(s)
    ELSE IF s.gameState = "countdown" THEN s
    ELSE IF s.gameState = "finished" \/ s.hasFinished THEN s
    ELSE IF s.isPaused THEN s
    ELSE IF s.gameState = "racing"
         THEN [s EXCEPT !.velocity = Min(Px(TAP_VELOCITY_BOOST), Px(MAX_VELOCITY))]
         ELSE s

handleTap(s) ==
    IF s.gameState = "ready" THEN startCountdown(s)
    ELSE IF s.gameState = "countdown" THEN s
    ELSE IF s.gameState = "finished" \/ s.hasFinished THEN s
    ELSE IF s.isPaused THEN s
    ELSE IF s.gameState = "racing"
         THEN [s EXCEPT !.velocity =
                  Min(s.velocity + Px(TAP_VELOCITY_BOOST), Px(MAX_VELOCITY))]
         ELSE s

(* handleSettingsUpdated that stores the scale and leaves the speeds alone *)
handleSettingsUpdated_NoClamp(s, scale) == [s EXCEPT !.speedScale = scale]

handleSettingsUpdated(s, scale) ==
    [s EXCEPT !.speedScale = scale,
              !.competitors =
                 [i \in 1..Len(s.competitors) |->
                    [s.competitors[i] EXCEPT !.speed =
                        Clamp(s.competitors[i].speed,
                              getMinSpeed(s.competitors[i].familyMember, scale),
                              getMaxSpeed(s.competitors[i].familyMember, scale))]]]

(* handleMathAnswer with <= for < at the fast-answer threshold *)
handleMathAnswer_AtThreshold(s, correct, timeTaken) ==
    LET s1 == [s EXCEPT !.isPaused = FALSE]
    IN IF correct
       THEN IF timeTaken <= FAST_ANSWER_THRESHOLD
            THEN [s1 EXCEPT !.velocity = Px(FAST_ANSWER_BOOST)]
            ELSE [s1 EXCEPT !.velocity = Px(SLOW_ANSWER_BOOST)]
       ELSE s1

handleMathAnswer(s, correct, timeTaken) ==
    LET s1 == [s EXCEPT !.isPaused = FALSE]
    IN IF correct
       THEN IF timeTaken < FAST_ANSWER_THRESHOLD
            THEN [s1 EXCEPT !.velocity = Px(FAST_ANSWER_BOOST)]
            ELSE [s1 EXCEPT !.velocity = Px(SLOW_ANSWER_BOOST)]
       ELSE s1

(* handleRestart that moves Rosie back but keeps the checkpoint flags *)
handleRestart_KeepsCheckpoints(s, newCompetitors) ==
    LET s1 == [s EXCEPT !.gameState = "ready",
                        !.hasStarted = FALSE,
                        !.hasFinished = FALSE,
                        !.velocity = 0,
                        !.isPaused = FALSE,
                        !.raceStartTime = 0,
                        !.rosieFinishTime = null,
                        !.rosieFinishPosition = null,
                        !.nextFinishPosition = 1,
                        !.countdownTimer = 0,
                        !.count = 0,
                        !.rosieX = rosieStartX,
                        !.competitors = newCompetitors]
    IN emitGameState(s1)

(* handleRestart with the competitors resetCompetitors built *)
handleRestart(s, newCompetitors) ==
    LET s1 == [s EXCEPT !.gameState = "ready",
                        !.hasStarted = FALSE,
                        !.hasFinished = FALSE,
                        !.velocity = 0,
                        !.isPaused = FALSE,
                        !.passedCheckpoints = [i \in 1..Len(checkpointPositions) |-> FALSE],
                        !.raceStartTime = 0,
                        !.rosieFinishTime = null,
                        !.rosieFinishPosition = null,
                        !.nextFinishPosition = 1,
                        !.countdownTimer = 0,
                        !.count = 0,
                        !.rosieX = rosieStartX,
                        !.competitors = newCompetitors]
    IN emitGameState(s1)

resetCompetitors(scale) ==
    UNION {createCompetitors(racers, scale) : racers \in getRandomRacers(NumRacers)}

----------------------------------------------------------------------------
(* The host's quiz: GameContext.currentProblem and the MathModal showing it *)

(* no problem is set, no modal is mounted, no answer timeout is pending *)
noModal ==
    [open |-> FALSE, current |-> 0, currentId |-> "", shown |-> 0,
     problemId |-> "", feedback |-> "none", clicks |-> 0,
     timers |-> << >>, calls |-> << >>]

(* the GameContext listeners on one event of the scene; ids[k] is the id of
   the problem generateProblem returns *)
hostSees(m, e, ids) ==
    IF e.type \in {"raceStarted", "raceFinished"}
    THEN [m EXCEPT !.open = FALSE]
    ELSE IF e.type = "quizRequested"
    THEN [m EXCEPT !.open = TRUE, !.current = m.shown + 1,
                   !.currentId = ids[e.n], !.shown = m.shown + 1,
                   !.calls = Append(m.calls, 0)]
    ELSE m

RECURSIVE hostSeesAll(_, _, _)
hostSeesAll(m, events, ids) ==
    IF events = << >> THEN m
    ELSE hostSeesAll(hostSees(m, Head(events), ids), Tail(events), ids)

(* the render after the batch: MathModal is mounted when currentProblem
   became non-null, keeps its state while it stays non-null and resets it
   when the problem id differs from the one in its state *)
rendered(before, m) ==
    IF ~m.open
    THEN [m EXCEPT !.current = 0, !.currentId = "", !.problemId = "",
                   !.feedback = "none", !.clicks = 0]
    ELSE IF ~before.open \/ m.problemId # m.currentId
    THEN [m EXCEPT !.problemId = m.currentId, !.feedback = "none", !.clicks = 0]
    ELSE IF before.current # m.current THEN [m EXCEPT !.clicks = 0]
    ELSE m

(* handleAnswerClick without the test of feedback *)
handleAnswerClick_NoGuard(m, correct, timeTaken) ==
    [m EXCEPT !.feedback = IF correct THEN "correct" ELSE "wrong",
              !.timers = Append(m.timers, [problem |-> m.current,
                                           correct |-> correct,
                                           timeTaken |-> timeTaken])]

(* MathModal.handleAnswerClick, with the render its setState asks for *)
handleAnswerClick(m, correct, timeTaken) ==
    IF m.feedback # "none" THEN m
    ELSE [m EXCEPT !.feedback = IF correct THEN "correct" ELSE "wrong",
                   !.timers = Append(m.timers, [problem |-> m.current,
                                                correct |-> correct,
                                                timeTaken |-> timeTaken])]

----------------------------------------------------------------------------
(* The state after preload() and create() *)

(* create() for a configuration (MOVEMENT_CONFIG.MAX_VELOCITY, the checkpoint
   ratios in units of 1/POSITION_RATIO_DENOMINATOR, the family members): it
   computes the positions, builds the racers and emits the state ready; it
   tests nothing and throws nothing *)
create(maxVelocity, positionRatios, familyMembers) ==
    [failed |-> FALSE,
     gameState |-> "ready",
     maxVelocity |-> maxVelocity,
     checkpointPositions |->
         [i \in 1..Len(positionRatios) |->
             startLineX + (trackLength * positionRatios[i]) \div POSITION_RATIO_DENOMINATOR],
     selectedRacers |-> Min(NumRacers, Len(familyMembers))]

Init ==
    /\ gameState = "ready"
    /\ raceStartTime = 0
    /\ velocity = 0
    /\ hasStarted = FALSE
    /\ hasFinished = FALSE
    /\ rosieX = rosieStartX
    /\ rosieFinishTime = null
    /\ rosieFinishPosition = null
    /\ nextFinishPosition = 1
    /\ isPaused = FALSE
    /\ passedCheckpoints = [i \in 1..Len(checkpointPositions) |-> FALSE]
    /\ speedScale = SPEED_SCALE
    /\ competitors \in resetCompetitors(SPEED_SCALE)
    /\ countdownTimer = 0
    /\ count = 0
    /\ delayedCalls = 0
    /\ now = 0
    /\ frames = 0
    /\ taps = 0
    /\ restarts = 0
    /\ emitted = <<Event("stateChanged", "ready", 0, FALSE, << >>)>>
    /\ queried = << >>
    /\ modal = noModal

(* Events of the host *)

(* a tap; at most maxTaps taps add velocity between two frames *)
TapWithin(maxTaps) ==
    /\ Becomes(handleTap(Scene))
    /\ taps' = IF velocity' # velocity THEN taps + 1 ELSE taps
    /\ taps' <= maxTaps
    /\ UNCHANGED <<now, frames, restarts>>

AnswerWith(correct, timeTaken) ==
    /\ Becomes(handleMathAnswer(Scene, correct, timeTaken))
    /\ UNCHANGED <<now, frames, taps, restarts>>

AnswerSubmitted ==
    \E correct \in BOOLEAN, timeTaken \in TimeTakenSet : AnswerWith(correct, timeTaken)

Restart ==
    \E newCompetitors \in resetCompetitors(speedScale) :
        /\ restarts < MaxRestarts
        /\ restarts' = restarts + 1
        /\ taps' = 0
        /\ Becomes(handleRestart(Scene, newCompetitors))
        /\ UNCHANGED <<now, frames>>

SettingsUpdated ==
    \E scale \in ScaleSet :
        /\ Becomes(handleSettingsUpdated(Scene, scale))
        /\ UNCHANGED <<now, frames, taps, restarts>>

(* one frame of the host: the clock advances by delta and update runs.  A
   frame of DeltaSet lasts longer than every timer delay, so the clock has
   fired every pending timer callback before update runs *)
StepWithin(maxFrames) ==
    \E delta \in DeltaSet :
    \E variations \in [1..Len(competitors) ->
                          FloatBetween(-Px(SPEED_VARIATION_AMOUNT), Px(SPEED_VARIATION_AMOUNT))] :
        /\ frames < maxFrames
        /\ countdownTimer = 0
        /\ delayedCalls = 0
        /\ now' = now + delta
        /\ frames' = frames + 1
        /\ taps' = 0
        /\ Becomes(update(Scene, now + delta, delta, variations))
        /\ UNCHANGED restarts

(* the countdown timer fires; a pending delayed call of an earlier go tick is
   due 500 ms after that tick, before any later firing *)
CountdownTick ==
    /\ countdownTimer > 0
    /\ delayedCalls = 0
    /\ Becomes(countdownCallback(Scene))
    /\ UNCHANGED <<now, frames, taps, restarts>>

(* the delayed call of the go tick fires *)
StartRacingCall ==
    /\ delayedCalls > 0
    /\ Becomes([startRacing(Scene, now) EXCEPT !.delayedCalls = delayedCalls - 1])
    /\ UNCHANGED <<now, frames, taps, restarts>>

Tap == TapWithin(MaxTaps)
Step == StepWithin(MaxFrames)

Next ==
    \/ Tap
    \/ AnswerSubmitted
    \/ Restart
    \/ Step
    \/ CountdownTick
    \/ StartRacingCall

Spec == Init /\ [][Next]_vars

(* The same race with enough taps between two frames to reach MAX_VELOCITY *)
SprintTap == TapWithin(MaxSprintTaps)
SprintStep == StepWithin(MaxSprintFrames)

NextSprint ==
    \/ SprintTap
    \/ AnswerSubmitted
    \/ Restart
    \/ SprintStep
    \/ CountdownTick
    \/ StartRacingCall

SpecSprint == Init /\ [][NextSprint]_vars

(* One race, neither restarted nor answered, with frames of the host's usual
   length as well: a frame shorter than the countdown interval can run
   between two firings of the countdown timer and before the delayed call of
   the go tick *)
FrameWithin(maxFrames) ==
    \E delta \in ShortDeltaSet \cup DeltaSet :
    \E variations \in [1..Len(competitors) ->
                          FloatBetween(-Px(SPEED_VARIATION_AMOUNT), Px(SPEED_VARIATION_AMOUNT))] :
        /\ frames < maxFrames
        /\ delta >= INTERVAL_MS => (countdownTimer = 0 /\ delayedCalls = 0)
        /\ now' = now + delta
        /\ frames' = frames + 1
        /\ taps' = 0
        /\ Becomes(update(Scene, now + delta, delta, variations))
        /\ UNCHANGED restarts

Frame == FrameWithin(MaxFrames)

NextFrames ==
    \/ Tap
    \/ Frame
    \/ CountdownTick
    \/ StartRacingCall

SpecFrames == Init /\ [][NextFrames]_vars

(* The race with the settings menu in use: the host changes the speed scale
   at any moment *)
SettingsStep == StepWithin(MaxSettingsFrames)

NextSettings ==
    \/ Tap
    \/ AnswerSubmitted
    \/ Restart
    \/ SettingsUpdated
    \/ SettingsStep
    \/ CountdownTick
    \/ StartRacingCall

SpecSettings == Init /\ [][NextSettings]_vars

(* One race, not restarted, with answers and with frames of both lengths *)
QuizFrame == FrameWithin(MaxQuizFrames)

NextQuiz ==
    \/ Tap
    \/ AnswerSubmitted
    \/ QuizFrame
    \/ CountdownTick
    \/ StartRacingCall

SpecQuiz == Init /\ [][NextQuiz]_vars

----------------------------------------------------------------------------
(* One race in which Rosie is pushed by taps and answers before the first
   frame and then coasts: the frame loop runs on with the frames of a 240 Hz
   display, and no tap or answer arrives any more *)
CoastDeltaSet == {4}

CoastTap == frames = 0 /\ TapWithin(MaxSprintTaps)
CoastAnswer == frames = 0 /\ AnswerSubmitted

CoastStep ==
    \E delta \in CoastDeltaSet :
    \E variations \in [1..Len(competitors) ->
                          FloatBetween(-Px(SPEED_VARIATION_AMOUNT), Px(SPEED_VARIATION_AMOUNT))] :
        /\ frames < MaxCoastFrames
        /\ gameState = "racing"
        /\ now' = now + delta
        /\ frames' = frames + 1
        /\ taps' = 0
        /\ Becomes(update(Scene, now + delta, delta, variations))
        /\ UNCHANGED restarts

NextCoast ==
    \/ CoastTap
    \/ CoastAnswer
    \/ CoastStep
    \/ CountdownTick
    \/ StartRacingCall

SpecCoast == Init /\ [][NextCoast]_vars

(* One race with restart and with frames of both lengths, so that time passes
   between a restart and the timers the previous countdown left behind *)
RestartFrame == FrameWithin(MaxRestartFrames)

NextRestartFrames ==
    \/ Tap
    \/ Restart
    \/ RestartFrame
    \/ CountdownTick
    \/ StartRacingCall

SpecRestartFrames == Init /\ [][NextRestartFrames]_vars

(* One race in which the host keeps the frame loop running while the state
   is racing (weak fairness on the frame and on the countdown timer, which
   the same clock drives); taps and answers arrive at any time *)
LiveStep == gameState = "racing" /\ StepWithin(MaxLiveFrames)

NextLive ==
    \/ Tap
    \/ AnswerSubmitted
    \/ LiveStep
    \/ CountdownTick
    \/ StartRacingCall

(* the frame loop can run: the race is on and no timer is due first *)
frameLoopRuns ==
    /\ gameState = "racing"
    /\ frames < MaxLiveFrames
    /\ countdownTimer = 0
    /\ delayedCalls = 0

(* weak fairness of LiveStep and of CountdownTick, written with their
   enabling conditions: only LiveStep changes frames, and only the countdown
   callback lowers countdownTimer *)
SpecLive ==
    /\ Init /\ [][NextLive]_vars
    /\ ([]<>(~frameLoopRuns) \/ []<><<frames' = frames + 1>>_vars)
    /\ ([]<>(~(countdownTimer > 0 /\ delayedCalls = 0))
          \/ []<><<countdownTimer' < countdownTimer>>_vars)

(* the fields of the scene *)
sceneVars == <<gameState, raceStartTime, velocity, hasStarted, hasFinished,
               rosieX, rosieFinishTime, rosieFinishPosition,
               nextFinishPosition, isPaused, passedCheckpoints, competitors,
               speedScale, countdownTimer, count, delayedCalls>>

(* The scene together with the host's quiz modal: answers reach the scene
   only through the modal's delayed onAnswer, and the host follows the
   notifications of every handler.  A frame lasts longer than the modal's
   delays, so it runs with no answer timeout pending *)
HostFollows(ids) == modal' = rendered(modal, hostSeesAll(modal, emitted', ids))

ModalTap ==
    /\ SceneBecomes(handleTap(Scene))
    /\ taps' = IF velocity' # velocity THEN taps + 1 ELSE taps
    /\ taps' <= MaxTaps
    /\ HostFollows([i \in 1..Len(checkpointPositions) |-> ""])
    /\ UNCHANGED <<now, frames, restarts>>

ModalRestart ==
    \E newCompetitors \in resetCompetitors(speedScale) :
        /\ restarts < MaxRestarts
        /\ restarts' = restarts + 1
        /\ taps' = 0
        /\ SceneBecomes(handleRestart(Scene, newCompetitors))
        /\ modal' = rendered(modal, [modal EXCEPT !.open = FALSE])
        /\ UNCHANGED <<now, frames>>

ModalStep ==
    \E delta \in DeltaSet :
    \E variations \in [1..Len(competitors) ->
                          FloatBetween(-Px(SPEED_VARIATION_AMOUNT), Px(SPEED_VARIATION_AMOUNT))] :
    \E ids \in [1..Len(checkpointPositions) -> ProblemIds] :
        /\ frames < MaxModalFrames
        /\ countdownTimer = 0
        /\ delayedCalls = 0
        /\ modal.timers = << >>
        /\ now' = now + delta
        /\ frames' = frames + 1
        /\ taps' = 0
        /\ SceneBecomes(update(Scene, now + delta, delta, variations))
        /\ HostFollows(ids)
        /\ UNCHANGED restarts

ModalCountdownTick ==
    /\ countdownTimer > 0
    /\ delayedCalls = 0
    /\ SceneBecomes(countdownCallback(Scene))
    /\ HostFollows([i \in 1..Len(checkpointPositions) |-> ""])
    /\ UNCHANGED <<now, frames, taps, restarts>>

ModalStartRacingCall ==
    /\ delayedCalls > 0
    /\ SceneBecomes([startRacing(Scene, now) EXCEPT !.delayedCalls = delayedCalls - 1])
    /\ HostFollows([i \in 1..Len(checkpointPositions) |-> ""])
    /\ UNCHANGED <<now, frames, taps, restarts>>

(* a click on an answer button of the mounted modal *)
Click ==
    \E correct \in BOOLEAN, timeTaken \in TimeTakenSet :
        /\ modal.open
        /\ modal.clicks < MaxClicks
        /\ modal' = [handleAnswerClick(modal, correct, timeTaken)
                        EXCEPT !.clicks = modal.clicks + 1]
        /\ UNCHANGED sceneVars
        /\ UNCHANGED <<now, frames, taps, restarts, emitted, queried>>

(* a setTimeout of handleAnswerClick fires: onAnswer is submitMathAnswer *)
AnswerTimeout ==
    \E k \in 1..Len(modal.timers) :
        LET t == modal.timers[k]
            m == [modal EXCEPT
                     !.timers = SubSeq(modal.timers, 1, k - 1) \o
                                SubSeq(modal.timers, k + 1, Len(modal.timers)),
                     !.calls[t.problem] = @ + 1,
                     !.open = FALSE]
        IN /\ SceneBecomes(handleMathAnswer(Scene, t.correct, t.timeTaken))
           /\ modal' = rendered(modal, m)
           /\ UNCHANGED <<now, frames, taps, restarts>>

NextModal ==
    \/ ModalTap
    \/ ModalRestart
    \/ ModalStep
    \/ ModalCountdownTick
    \/ ModalStartRacingCall
    \/ Click
    \/ AnswerTimeout

SpecModal == Init /\ [][NextModal]_vars

(* One race with restart in which the host also reads the race positions *)
(* a call of getRacePositions that sorts this.competitors itself *)
GetRacePositions_SortsCompetitors ==
    /\ Len(queried) < MaxQueries
    /\ queried' = Append(queried, getRacePositions(Scene))
    /\ competitors' = sortByX(competitors)
    /\ UNCHANGED <<gameState, raceStartTime, velocity, hasStarted, hasFinished,
                   rosieX, rosieFinishTime, rosieFinishPosition,
                   nextFinishPosition, isPaused, passedCheckpoints,
                   speedScale, countdownTimer, count, delayedCalls>>
    /\ UNCHANGED <<now, frames, taps, restarts, emitted, modal>>

(* the host calls getRacePositions: the scene is read, nothing is assigned *)
GetRacePositions ==
    /\ Len(queried) < MaxQueries
    /\ queried' = Append(queried, getRacePositions(Scene))
    /\ UNCHANGED sceneVars
    /\ UNCHANGED <<now, frames, taps, restarts, emitted, modal>>

QueryStep == StepWithin(MaxQueryFrames)

NextQuery ==
    \/ Tap
    \/ AnswerSubmitted
    \/ Restart
    \/ QueryStep
    \/ CountdownTick
    \/ StartRacingCall
    \/ GetRacePositions

SpecQuery == Init /\ [][NextQuery]_vars

----------------------------------------------------------------------------
(* Vocabulary of the properties *)

(* the race state of the specification: paused is racing with Rosie held at
   a checkpoint *)
RaceState == IF gameState = "racing" /\ isPaused THEN "paused" ELSE gameState

Checkpoints == 1..Len(checkpointPositions)
Lanes == 1..Len(competitors)

IsStep == frames' = frames + 1
IsRestart == restarts' = restarts + 1

finishedCount ==
    (IF rosieFinishPosition # null THEN 1 ELSE 0)
        + Cardinality({i \in Lanes : competitors[i].finishPosition # null})

assignedPositions ==
    ({rosieFinishPosition} \cup {competitors[i].finishPosition : i \in Lanes}) \ {null}

quizRequested(i) == Event("quizRequested", "", i, FALSE, << >>)
Emitted(e) == \E k \in 1..Len(emitted) : emitted[k] = e

----------------------------------------------------------------------------
(* C1: the race state only changes along ready->countdown, countdown->racing,
   racing->paused, paused->racing, racing/paused->finished, and any
   state->ready on restart; racing is never entered from ready and finished
   is only left by restart. *)
AllowedTransition(a, b) ==
    \/ a = b
    \/ a = "ready" /\ b = "countdown"
    \/ a = "countdown" /\ b = "racing"
    \/ a = "racing" /\ b = "paused"
    \/ a = "paused" /\ b = "racing"
    \/ a \in {"racing", "paused"} /\ b = "finished"

C1_OnlyListedTransitions ==
    [][IF IsRestart THEN RaceState' = "ready"
       ELSE AllowedTransition(RaceState, RaceState')]_vars

(* C2: the finish positions assigned so far, across Rosie and all AI racers,
   are exactly 1..k without duplicates or gaps, k being the number of racers
   that have finished. *)
C2_PositionsAreOneToK ==
    /\ assignedPositions = 1..finishedCount
    /\ (rosieFinishPosition = null) = (rosieFinishTime = null)
    /\ \A i \in Lanes :
          (competitors[i].finishPosition = null) = (competitors[i].finishTime = null)

(* every racer has finished, Rosie neither first nor last *)
C2_Witness ==
    /\ finishedCount = Len(competitors) + 1
    /\ rosieFinishPosition = 2

(* C3: once a racer has a finish position, no later event of the same race
   changes its finish position or finish time, and the position counter
   advances only by the number of racers that finish in that event. *)
C3_FinishIsAssignedOnce ==
    [][~IsRestart =>
         /\ rosieFinishPosition # null =>
               /\ rosieFinishPosition' = rosieFinishPosition
               /\ rosieFinishTime' = rosieFinishTime
         /\ \A i \in Lanes :
               competitors[i].finishPosition # null =>
                  /\ competitors'[i].finishPosition = competitors[i].finishPosition
                  /\ competitors'[i].finishTime = competitors[i].finishTime
         /\ nextFinishPosition' - nextFinishPosition = finishedCount' - finishedCount]_vars

(* a later step ran the finish checks while an earlier finisher stood at the
   finish line: Rosie finished first, an AI racer second in a later step, and
   another AI racer finished before Rosie's velocity was raised again *)
C3_Witness ==
    /\ rosieFinishPosition = 1
    /\ rosieX >= finishLineX
    /\ \E i \in Lanes :
          /\ competitors[i].finishPosition = 2
          /\ competitors[i].x >= finishLineX
          /\ competitors[i].finishTime > rosieFinishTime

(* C4: Rosie's velocity is always within 0..MAX_VELOCITY. *)
C4_VelocityWithinBounds == 0 <= velocity /\ velocity <= Px(MAX_VELOCITY)

(* the cap has cut a tap: 50 from a fast answer and 17 taps make 305 *)
C4_Witness == velocity = Px(MAX_VELOCITY) /\ taps = 17

(* C5: a step that moves Rosie to or past an unpassed checkpoint ends with the
   checkpoint passed, velocity 0, the race state paused and quizRequested
   emitted with the checkpoint's index. *)
C5_CheckpointPausesRace ==
    [][IsStep =>
         \A i \in Checkpoints :
            (~passedCheckpoints[i] /\ rosieX' >= checkpointPositions[i]) =>
               /\ passedCheckpoints'[i]
               /\ velocity' = 0
               /\ RaceState' = "paused"
               /\ Emitted(quizRequested(i))']_vars

(* C6: an answer received while Rosie is not paused at a checkpoint changes
   neither the race state nor the paused flag nor the velocity. *)
PausedAtCheckpoint == gameState = "racing" /\ isPaused /\ ~hasFinished

C6_StrayAnswerIsIgnored ==
    [][(AnswerSubmitted /\ ~PausedAtCheckpoint) =>
          UNCHANGED <<gameState, isPaused, velocity>>]_vars

(* C7: an answer processed while paused sets the velocity to FAST_ANSWER_BOOST
   if correct and under 3000 ms, to SLOW_ANSWER_BOOST if correct and 3000 ms
   or more, and leaves it 0 if incorrect. *)
C7_AnswerSetsBoost ==
    [][\A correct \in BOOLEAN, timeTaken \in TimeTakenSet :
          (isPaused /\ AnswerWith(correct, timeTaken)) =>
             velocity' = IF ~correct THEN 0
                         ELSE IF timeTaken < 3000 THEN Px(50) ELSE Px(20)]_vars

(* Rosie resumed at a checkpoint with exactly the slow boost *)
C7_Witness ==
    /\ gameState = "racing"
    /\ passedCheckpoints[1]
    /\ ~isPaused
    /\ ~hasFinished
    /\ velocity = Px(SLOW_ANSWER_BOOST)
    /\ emitted = << >>

(* C8: after an answer processed while paused the race state is racing again
   for every outcome: the next step moves Rosie and a tap adds velocity. *)
C8_AnswerResumesRacing ==
    [][(isPaused /\ AnswerSubmitted) =>
          /\ RaceState' = "racing"
          /\ ~hasFinished']_vars

(* C9: a restart in any state leaves, in one step, state ready, Rosie at the
   start with velocity 0 and not paused, every checkpoint unpassed, every
   finish time and position null, the counter at 1, every competitor at the
   start with a speed inside its range, and nothing of the previous race:
   no started or finished flag, no start time, no pending timer callback. *)
C9_RestartResetsEverything ==
    [][IsRestart =>
         /\ gameState' = "ready"
         /\ rosieX' = rosieStartX
         /\ velocity' = 0
         /\ ~isPaused'
         /\ \A i \in Checkpoints : ~passedCheckpoints'[i]
         /\ rosieFinishTime' = null /\ rosieFinishPosition' = null
         /\ nextFinishPosition' = 1
         /\ \A i \in 1..Len(competitors') :
               /\ competitors'[i].x = rosieStartX
               /\ competitors'[i].finishTime = null
               /\ competitors'[i].finishPosition = null
               /\ competitors'[i].speed >= getMinSpeed(competitors'[i].familyMember, speedScale')
               /\ competitors'[i].speed <= getMaxSpeed(competitors'[i].familyMember, speedScale')
         /\ ~hasStarted' /\ ~hasFinished' /\ raceStartTime' = 0
         /\ countdownTimer' = 0 /\ delayedCalls' = 0]_vars

(* C10: a restart during a countdown aborts it: the state stays ready until
   the next tap, and racing begins only when the countdown in progress has
   given its go tick. *)
C10_RestartAbortsCountdown ==
    [][/\ gameState = "ready" => gameState' \in {"ready", "countdown"}
       /\ (gameState # "racing" /\ gameState' = "racing") =>
             (gameState = "countdown" /\ countdownTimer = 1)]_vars

----------------------------------------------------------------------------
(* C11: a tap in state countdown, while Rosie is paused at a checkpoint, or in
   state finished changes neither the race state nor the velocity nor any
   racer's position nor any checkpoint flag, and emits no notification. *)
C11_TapIsNoOpOutsideReadyAndRacing ==
    [][(Tap /\ RaceState \in {"countdown", "paused", "finished"}) =>
          /\ UNCHANGED <<gameState, isPaused, velocity, rosieX, competitors,
                         passedCheckpoints, hasFinished>>
          /\ emitted' = << >>]_vars

(* a tap was the one event since the first step paused Rosie at a checkpoint *)
C11_Witness ==
    /\ RaceState = "paused"
    /\ frames = 1
    /\ restarts = 0
    /\ emitted = << >>

(* C12: in state ready a tap changes the state to countdown and emits
   stateChanged{countdown} and countdownTick{3}; it adds no velocity and moves
   no racer. *)
C12_TapInReadyStartsCountdown ==
    [][(Tap /\ gameState = "ready") =>
          /\ gameState' = "countdown"
          /\ emitted' = << Event("stateChanged", "countdown", 0, FALSE, << >>),
                           Event("countdownTick", "", 3, FALSE, << >>) >>
          /\ UNCHANGED <<velocity, rosieX, competitors>>]_vars

(* the countdown has just been started by a tap *)
C12_Witness ==
    /\ gameState = "countdown"
    /\ count = START_COUNT
    /\ Len(emitted) = 2
    /\ rosieX = rosieStartX

(* C13: a tap in state racing with Rosie neither paused nor finished sets the
   velocity to min(velocity + 15, 300) and changes neither a position nor the
   race state. *)
C13_TapAddsCappedBoost ==
    [][(SprintTap /\ gameState = "racing" /\ ~isPaused /\ ~hasFinished) =>
          /\ velocity' = Min(velocity + Px(15), Px(300))
          /\ UNCHANGED <<gameState, isPaused, rosieX, competitors>>]_vars

(* two taps from rest in a running race *)
C13_Witness ==
    /\ gameState = "racing"
    /\ ~isPaused
    /\ velocity = Px(2 * TAP_VELOCITY_BOOST)
    /\ taps = 2
    /\ frames = 0

(* C14: in a countdown no restart interrupts, countdownTick is emitted with
   the counts 3, 2, 1, 0 in that order, each once (the tap emits 3, C12, and
   every firing of the timer emits the count below the last one), the state
   becomes racing only after the go tick, and no tick is emitted once the
   countdown is over. *)
countdownTick(c) == Event("countdownTick", "", c, FALSE, << >>)

tickEmitted(seq) == \E k \in 1..Len(seq) : seq[k].type = "countdownTick"

C14_CountdownTicksInOrder ==
    [][~IsRestart =>
         /\ CountdownTick =>
               /\ count' = count - 1
               /\ emitted' = IF count >= 1 THEN <<countdownTick(count - 1)>> ELSE << >>
         /\ (gameState = "countdown" /\ gameState' = "racing") => count = 0
         /\ tickEmitted(emitted') => gameState' = "countdown"]_vars

(* C15: in the step in which the last unfinished racer reaches the finish
   line, resultsUpdated is emitted with allFinished = true and the race state
   becomes finished, whichever racer is last and whether or not Rosie is
   paused. *)
allFinishedEmitted(seq) ==
    \E k \in 1..Len(seq) : seq[k].type = "resultsUpdated" /\ seq[k].flag

C15_LastFinisherEndsRace ==
    [][(IsStep /\ finishedCount < Len(competitors) + 1
               /\ finishedCount' = Len(competitors) + 1) =>
          /\ gameState' = "finished"
          /\ allFinishedEmitted(emitted')]_vars

(* an AI racer finished last while Rosie, finished first, was still held by
   the checkpoint she crossed on her way to the finish line *)
C15_Witness ==
    /\ gameState = "finished"
    /\ isPaused
    /\ rosieFinishPosition = 1
    /\ allFinishedEmitted(emitted)

(* C16: whenever the race state is finished, Rosie and every AI racer have a
   finish position, and every resultsUpdated with allFinished = true lists a
   position for every racer. *)
C16_FinishedMeansAllFinished ==
    /\ gameState = "finished" =>
          /\ rosieFinishPosition # null
          /\ \A i \in Lanes : competitors[i].finishPosition # null
    /\ \A k \in 1..Len(emitted) :
          (emitted[k].type = "resultsUpdated" /\ emitted[k].flag) =>
             /\ Len(emitted[k].results) = Len(competitors) + 1
             /\ \A j \in 1..Len(emitted[k].results) :
                   emitted[k].results[j].position # null

(* the race ended by Rosie crossing the line last *)
C16_Witness ==
    /\ gameState = "finished"
    /\ rosieFinishPosition = Len(competitors) + 1
    /\ allFinishedEmitted(emitted)

(* C17: a checkpoint is marked passed only with Rosie at or past its
   position, and within one race a passed checkpoint stays passed: only
   restart sets the flag back to false. *)
passedOnlyBehindRosie(passed, x) ==
    \A i \in Checkpoints : passed[i] => x >= checkpointPositions[i]

C17_CheckpointPassesOnce ==
    [][/\ passedOnlyBehindRosie(passedCheckpoints, rosieX)
       /\ passedOnlyBehindRosie(passedCheckpoints', rosieX')
       /\ ~IsRestart =>
             \A i \in Checkpoints : passedCheckpoints[i] => passedCheckpoints'[i]]_vars

(* the first checkpoint passed in one step and still passed, the second still
   unpassed, after a later step of the same race *)
C17_Witness ==
    /\ passedCheckpoints = <<TRUE, FALSE>>
    /\ rosieX >= checkpointPositions[1]
    /\ rosieX < checkpointPositions[2]
    /\ frames = 2
    /\ restarts = 0

(* C18: when Rosie and an AI racer both first reach the finish line in the
   same step, Rosie is checked first and receives the lower finish position. *)
C18_TieGoesToRosie ==
    [][IsStep =>
         \A i \in Lanes :
            (/\ rosieFinishPosition = null
             /\ rosieFinishPosition' # null
             /\ competitors[i].finishPosition = null
             /\ competitors'[i].finishPosition # null) =>
               rosieFinishPosition' < competitors'[i].finishPosition]_vars

(* C19: every change of the race state (ready->countdown, countdown->racing,
   racing->paused at a checkpoint, paused->racing on an answer, ->finished,
   restart ->ready) emits a stateChanged notification with the new state. *)
C19_StateChangeIsNotified ==
    [][RaceState' # RaceState =>
          \E k \in 1..Len(emitted') :
             /\ emitted'[k].type = "stateChanged"
             /\ emitted'[k].state = RaceState']_vars

(* C20: on every step while Rosie is paused at a checkpoint each unfinished
   AI racer advances by speed x dt, clamped at the finish line, and is
   assigned a finish position when it reaches the line; in the states ready,
   countdown and finished a step moves no AI racer. *)
C20_CompetitorsRunWhilePaused ==
    [][IsStep =>
         /\ RaceState = "paused" =>
               \A i \in Lanes :
                  competitors[i].finishTime = null =>
                     /\ competitors'[i].x =
                           Min(competitors[i].x
                                  + (competitors'[i].speed * (now' - now)) \div 1000,
                               finishLineX)
                     /\ competitors'[i].x >= finishLineX =>
                           competitors'[i].finishPosition # null
         /\ gameState \in {"ready", "countdown", "finished"} =>
               competitors' = competitors]_vars

(* Rosie is held at a checkpoint, unfinished, and an AI racer has crossed the
   finish line in the latest step, which emitted nothing *)
C20_Witness ==
    /\ gameState = "racing"
    /\ isPaused
    /\ ~hasFinished
    /\ emitted = << >>
    /\ \E i \in Lanes :
          /\ competitors[i].finishPosition # null
          /\ competitors[i].finishTime = now - raceStartTime

----------------------------------------------------------------------------
(* C21: in every reachable state each AI racer's speed lies within the
   [min, max] range of its profile scaled by the current speed scale: at
   creation, after every speed variation, after a restart and after a
   settings update that changes the scale in the middle of a race. *)
C21_SpeedWithinScaledRange ==
    \A i \in Lanes :
       /\ getMinSpeed(competitors[i].familyMember, speedScale) <= competitors[i].speed
       /\ competitors[i].speed <= getMaxSpeed(competitors[i].familyMember, speedScale)

(* the scale was doubled after the racers were created at the default scale,
   and a racer that ran below the new minimum has been lifted to it *)
C21_Witness ==
    /\ gameState = "racing"
    /\ restarts = 0
    /\ speedScale = 140
    /\ \E i \in Lanes :
          /\ competitors[i].x > rosieStartX
          /\ competitors[i].finishTime = null
          /\ competitors[i].speed = getMinSpeed(competitors[i].familyMember, 140)

(* C22: between two restarts no step, tap, answer or settings update moves
   Rosie or an AI racer backwards. *)
C22_PositionsNeverDecrease ==
    [][~IsRestart =>
         /\ rosieX' >= rosieX
         /\ \A i \in Lanes : competitors'[i].x >= competitors[i].x]_vars

(* two steps of one race have run under a scale the settings menu changed,
   and Rosie stands past both checkpoints, short of the finish line *)
C22_Witness ==
    /\ restarts = 0
    /\ frames = 2
    /\ speedScale = 140
    /\ passedCheckpoints = <<TRUE, TRUE>>
    /\ rosieX > checkpointPositions[2]
    /\ rosieX < finishLineX

(* C23: in every reachable state the position of Rosie and of every AI racer
   lies within [start position, finish line], however long the step. *)
C23_PositionsWithinTrack ==
    /\ rosieStartX <= rosieX
    /\ rosieX <= finishLineX
    /\ \A i \in Lanes :
          /\ rosieStartX <= competitors[i].x
          /\ competitors[i].x <= finishLineX

(* a 25 s step carried Rosie and an AI racer, each more than a track length
   fast, exactly onto the finish line *)
C23_Witness ==
    /\ rosieX = finishLineX
    /\ frames = 1
    /\ \E i \in Lanes : competitors[i].x = finishLineX

(* C24: a step taken while Rosie is paused at a checkpoint, or in state
   ready, countdown or finished, leaves Rosie's position and velocity
   unchanged and detects neither a checkpoint nor a finish for her. *)
C24_StepLeavesHeldRosieAlone ==
    [][(IsStep /\ RaceState \in {"paused", "ready", "countdown", "finished"}) =>
          UNCHANGED <<rosieX, velocity, passedCheckpoints, hasFinished,
                      rosieFinishTime, rosieFinishPosition>>]_vars

(* a frame ran during the countdown with a velocity an early answer had left *)
C24_Witness ==
    /\ gameState = "countdown"
    /\ frames = 1
    /\ velocity = Px(FAST_ANSWER_BOOST)
    /\ rosieX = rosieStartX

(* C25: every emitted result list holds all racers: first those with a finish
   position, ascending by position, then the racers still racing (position
   null) in the lane order of the competitors. *)
laneOf(name) ==
    IF name = "Rosie" THEN 0
    ELSE CHOOSE i \in Lanes : competitors[i].familyMember.id = name

resultsInOrder(rs) ==
    /\ Len(rs) = Len(competitors) + 1
    /\ {rs[j].name : j \in 1..Len(rs)} =
          {"Rosie"} \cup {competitors[i].familyMember.id : i \in Lanes}
    /\ \A i, j \in 1..Len(rs) :
          i < j =>
             /\ rs[i].position = null =>
                   /\ rs[j].position = null
                   /\ laneOf(rs[i].name) < laneOf(rs[j].name)
             /\ (rs[i].position # null /\ rs[j].position # null) =>
                   rs[i].position < rs[j].position

C25_ResultListsAreOrdered ==
    \A k \in 1..Len(emitted) :
        emitted[k].type \in {"resultsUpdated", "allRacersFinished"} =>
            resultsInOrder(emitted[k].results)

(* a list emitted with an AI racer first, Rosie second and the AI racer of
   the first lane still racing *)
C25_Witness ==
    \E k \in 1..Len(emitted) :
        /\ emitted[k].type = "resultsUpdated"
        /\ emitted[k].results[1].name = competitors[2].familyMember.id
        /\ emitted[k].results[1].position = 1
        /\ emitted[k].results[2].name = "Rosie"
        /\ emitted[k].results[3].position = null
        /\ restarts = 0

(* C26: reading the race positions changes no racer's position, finish time
   or finish position and not the position counter; consecutive reads with no
   event in between return equal lists, and so do the two result lists
   compiled by one step that ends the race; the position counter changes
   only in a restart or in a step with a finish-line crossing, where it grows
   by the number of racers that crossed. *)
IsQuery == Len(queried') = Len(queried) + 1

racerFacts ==
    <<rosieX, rosieFinishTime, rosieFinishPosition,
      [i \in Lanes |-> <<competitors[i].x, competitors[i].finishTime,
                         competitors[i].finishPosition>>],
      [i \in Lanes |-> competitors[i].familyMember.id],
      nextFinishPosition>>

repeatedReadsAgree ==
    /\ \A i, j \in 1..Len(queried) : queried[i] = queried[j]
    /\ \A i, j \in 1..Len(emitted) :
          (/\ emitted[i].type = "resultsUpdated" /\ emitted[i].flag
           /\ emitted[j].type = "allRacersFinished") =>
              emitted[i].results = emitted[j].results

resultsUpdatedEmitted(seq) ==
    \E k \in 1..Len(seq) : seq[k].type = "resultsUpdated"

rosieListed(rs) ==
    \E j \in 1..Len(rs) : rs[j].isRosie /\ rs[j].position # null

C27_ResultsFollowRosieFinish ==
    /\ [](\A k \in 1..Len(emitted) :
             emitted[k].type = "resultsUpdated" =>
                 /\ rosieFinishPosition # null
                 /\ rosieListed(emitted[k].results))
    /\ [][(IsStep /\ rosieFinishPosition = null /\ rosieFinishPosition' # null) =>
             resultsUpdatedEmitted(emitted')]_vars
    /\ [][(IsStep /\ rosieFinishPosition # null
                  /\ \E i \in Lanes : /\ competitors[i].finishPosition = null
                                      /\ competitors'[i].finishPosition # null) =>
             resultsUpdatedEmitted(emitted')]_vars

(* Rosie was first; a later step brought one AI racer over the line while the
   other is still racing, and the list of that step was emitted *)
C27_Witness ==
    /\ rosieFinishPosition = 1
    /\ gameState = "racing"
    /\ restarts = 0
    /\ \E k \in 1..Len(emitted) :
          /\ emitted[k].type = "resultsUpdated"
          /\ ~emitted[k].flag
          /\ emitted[k].results[1].isRosie
          /\ emitted[k].results[2].position = 2
          /\ emitted[k].results[3].position = null

(* C28: raceFinished is emitted exactly once per race, by the step in which
   Rosie's position first reaches the finish line, and not again before a
   restart. *)
raceFinishedCount(seq) ==
    Cardinality({k \in 1..Len(seq) : seq[k].type = "raceFinished"})

C28_RaceFinishedOncePerRace ==
    /\ [][(IsStep /\ rosieX < finishLineX /\ rosieX' >= finishLineX) =>
             raceFinishedCount(emitted') = 1]_vars
    /\ [][(~IsQuery /\ raceFinishedCount(emitted') > 0) =>
             /\ IsStep
             /\ raceFinishedCount(emitted') = 1
             /\ rosieFinishTime = null /\ rosieFinishTime' # null
             /\ rosieX < finishLineX /\ rosieX' = finishLineX]_vars
    /\ [][(rosieFinishTime # null /\ rosieFinishTime' = null) => IsRestart]_vars

(* Rosie finished in an earlier step, was pushed again by an answer and ran
   another step against the finish line without a second raceFinished *)
C28_Witness ==
    /\ rosieFinishTime # null
    /\ rosieFinishTime < now - raceStartTime
    /\ gameState = "racing"
    /\ velocity = applyFriction(Px(FAST_ANSWER_BOOST))
    /\ raceFinishedCount(emitted) = 0
    /\ resultsUpdatedEmitted(emitted) = FALSE
    /\ frames = 2
    /\ restarts = 0

(* C29: once the state is finished, every step, tap and answer leaves all
   racer positions, Rosie's velocity, the AI speeds, the finish times and
   positions, the checkpoint flags and the position counter unchanged; only
   restart changes them. *)
frozenFacts ==
    <<rosieX, velocity, rosieFinishTime, rosieFinishPosition,
      [i \in Lanes |-> <<competitors[i].x, competitors[i].speed,
                         competitors[i].finishTime,
                         competitors[i].finishPosition>>],
      passedCheckpoints, nextFinishPosition>>

C29_FinishedRaceIsFrozen ==
    [][(gameState = "finished" /\ ~IsRestart) => UNCHANGED frozenFacts]_vars

(* C30: in state racing with no further tap or answer, every step makes a
   velocity v > 0 strictly smaller, to v times the friction factor or to 0
   when that product is below 0.1 (or Rosie is stopped by a checkpoint or the
   finish line); after finitely many steps, at most MaxCoastFrames, the
   velocity is exactly 0, and further steps leave it 0. *)
C30_FrictionStopsRosie ==
    /\ [][(IsStep /\ gameState = "racing" /\ ~isPaused /\ velocity > 0) =>
             /\ velocity' < velocity
             /\ velocity' = IF isPaused' \/ hasFinished' THEN 0
                            ELSE IF (velocity * FRICTION) \div 100 < 10 THEN 0
                            ELSE (velocity * FRICTION) \div 100]_vars
    /\ [][(IsStep /\ velocity = 0) => velocity' = 0]_vars
    /\ [](frames = MaxCoastFrames => velocity = 0)

(* Rosie, pushed to the maximum velocity, has coasted to a halt on the open
   track: no checkpoint stopped her *)
C30_Witness ==
    /\ gameState = "racing"
    /\ velocity = 0
    /\ ~isPaused
    /\ rosieX > rosieStartX + Px(MAX_VELOCITY) \div 10
    /\ frames = MaxCoastFrames

(* C31: getRandomRacers(count) returns exactly min(count, number of family
   members) racers, each a member of FAMILY_MEMBERS and no two the same; the
   competitors chosen at setup and at every restart hold no duplicate. *)
noDuplicates(racers) ==
    \A i, j \in 1..Len(racers) : i # j => racers[i].id # racers[j].id

C31_RacersAreDistinct ==
    /\ \A n \in 0..(NumRacers + 1) :
          \A racers \in getRandomRacers(n) :
              /\ Len(racers) = Min(n, Len(FAMILY_MEMBERS))
              /\ \A i \in 1..Len(racers) : racers[i] \in Range(FAMILY_MEMBERS)
              /\ noDuplicates(racers)
    /\ Len(competitors) = Min(NumRacers, Len(FAMILY_MEMBERS))
    /\ \A i \in Lanes : competitors[i].familyMember \in Range(FAMILY_MEMBERS)
    /\ noDuplicates([i \in Lanes |-> competitors[i].familyMember])

(* the competitors re-chosen by a restart, in the shuffled order *)
C31_Witness ==
    /\ restarts = 1
    /\ Len(competitors) = NumRacers
    /\ competitors[1].familyMember = FAMILY_MEMBERS[2]
    /\ competitors[2].familyMember = FAMILY_MEMBERS[1]

(* C32: for one displayed quiz problem the modal invokes onAnswer at most
   once, however many answer buttons are clicked: a click after the first
   starts no second delayed callback, also while the first is pending. *)
timersOf(n) == {k \in 1..Len(modal.timers) : modal.timers[k].problem = n}

C32_OneAnswerPerProblem ==
    /\ [](\A n \in 1..Len(modal.calls) :
             modal.calls[n] + Cardinality(timersOf(n)) <= 1)
    /\ [][(modal'.clicks = modal.clicks + 1 /\ modal.feedback # "none") =>
             /\ modal'.timers = modal.timers
             /\ modal'.feedback = modal.feedback
             /\ modal'.calls = modal.calls]_vars

(* a second button was clicked while the delayed callback of the first click
   was pending, and only that one callback is pending *)
C32_Witness ==
    /\ modal.open
    /\ modal.clicks = 2
    /\ Len(modal.timers) = 1
    /\ modal.calls[modal.current] = 0
    /\ restarts = 0

(* C33: setting up a race with a non-positive max velocity, a checkpoint
   ratio outside the open interval (0,1) or an empty competitor pool fails
   with an error before the state ready is reached; the race that runs was
   set up, without failure, from the configuration of the code. *)
invalidSetups ==
    {<<v, POSITION_RATIOS, FAMILY_MEMBERS>> : v \in {-1, 0}}
      \cup {<<MAX_VELOCITY, <<r, 2>>, FAMILY_MEMBERS>> :
               r \in {-1, 0, POSITION_RATIO_DENOMINATOR, POSITION_RATIO_DENOMINATOR + 1}}
      \cup {<<MAX_VELOCITY, POSITION_RATIOS, << >> >>}

C33_InvalidSetupFails ==
    /\ LET made == create(MAX_VELOCITY, POSITION_RATIOS, FAMILY_MEMBERS)
       IN /\ ~made.failed
          /\ Len(competitors) = made.selectedRacers
          /\ Len(passedCheckpoints) = Len(made.checkpointPositions)
    /\ \A setup \in invalidSetups :
          LET made == create(setup[1], setup[2], setup[3])
          IN made.failed /\ made.gameState # "ready"

(* C34: whenever Rosie is paused at a checkpoint her velocity is 0; no tap,
   step or settings update received while paused makes it non-zero: from a
   pause the velocity becomes non-zero only by a correct answer, and from
   rest only by the boost of a tap or of a correct answer. *)
answerBoosts == {Px(FAST_ANSWER_BOOST), Px(SLOW_ANSWER_BOOST)}

C34_PausedRosieIsAtRest ==
    /\ [](isPaused => velocity = 0)
    /\ [][(isPaused /\ velocity' # 0) =>
             (~isPaused' /\ velocity' \in answerBoosts)]_vars
    /\ [][(velocity = 0 /\ velocity' # 0) =>
             velocity' \in answerBoosts \cup {Px(TAP_VELOCITY_BOOST)}]_vars

(* Rosie is held at the first checkpoint and the handler that ran last, a
   tap or a settings update, emitted nothing and left her at rest *)
C34_Witness ==
    /\ gameState = "racing"
    /\ isPaused
    /\ velocity = 0
    /\ frames = 1
    /\ restarts = 0
    /\ emitted = << >>

(* C35: whenever the state is ready or countdown Rosie's velocity is 0, and
   the race starts from rest: the velocity is 0 when the state becomes
   racing. *)
C35_RaceStartsFromRest ==
    /\ [](gameState \in {"ready", "countdown"} => velocity = 0)
    /\ [][(gameState # "racing" /\ gameState' = "racing") => velocity' = 0]_vars

(* C36: no checkpoint is skipped: after every step each checkpoint at or
   behind Rosie's position is marked passed, and Rosie has a finish position
   only with every checkpoint passed. *)
reachedArePassed(passed, x) ==
    \A i \in Checkpoints : x >= checkpointPositions[i] => passed[i]

C36_NoCheckpointSkipped ==
    /\ reachedArePassed(passedCheckpoints, rosieX)
    /\ rosieFinishPosition # null => \A i \in Checkpoints : passedCheckpoints[i]

(* one step carried Rosie from the start over both checkpoints to the finish *)
C36_Witness ==
    /\ frames = 1
    /\ restarts = 0
    /\ rosieFinishPosition # null
    /\ rosieX = finishLineX
    /\ \A i \in Checkpoints : passedCheckpoints[i]

(* C37: at most one quiz is outstanding: a step emits at most one
   quizRequested, none while Rosie is already paused at a checkpoint, and
   Rosie is never paused at a checkpoint and finished at the same time. *)
quizRequestedCount(seq) ==
    Cardinality({k \in 1..Len(seq) : seq[k].type = "quizRequested"})

C37_OneQuizAtATime ==
    /\ [][IsStep => quizRequestedCount(emitted') <= 1]_vars
    /\ [][(IsStep /\ isPaused) => quizRequestedCount(emitted') = 0]_vars
    /\ [](~(isPaused /\ hasFinished))

(* C38: after Rosie has finished, while other racers still race, her velocity
   stays 0 and her position stays at the finish line until restart: no tap,
   answer or step in that period changes them. *)
C38_FinishedRosieStaysPut ==
    /\ []((hasFinished /\ gameState = "racing") =>
             (velocity = 0 /\ rosieX = finishLineX))
    /\ [][(hasFinished /\ gameState = "racing" /\ ~IsRestart) =>
             (velocity' = 0 /\ rosieX' = finishLineX)]_vars

(* C39: within one race the start time is set exactly once, when the state
   becomes racing, so finish times agree with the finish order: a racer with
   a lower finish position has a finish time that is not greater. *)
finishRecords ==
    (IF rosieFinishPosition # null
     THEN {<<rosieFinishPosition, rosieFinishTime>>} ELSE {})
      \cup {<<competitors[i].finishPosition, competitors[i].finishTime>> :
               i \in {j \in Lanes : competitors[j].finishPosition # null}}

C39_StartTimeSetOnce ==
    /\ [][raceStartTime' # raceStartTime =>
             (IsRestart \/ (gameState # "racing" /\ gameState' = "racing"))]_vars
    /\ [](\A a, b \in finishRecords : a[1] < b[1] => a[2] <= b[2])

(* C40: while the host keeps stepping in state racing, whether or not Rosie
   is held at a checkpoint, every AI speed stays at or above its positive
   minimum, every AI racer eventually has a finish position, and once Rosie
   has finished too the state eventually becomes finished. *)
allCompetitorsPlaced == \A i \in Lanes : competitors[i].finishPosition # null

C40_RaceEnds ==
    /\ [](\A i \in Lanes :
             /\ getMinSpeed(competitors[i].familyMember, speedScale) > 0
             /\ competitors[i].speed >= getMinSpeed(competitors[i].familyMember, speedScale))
    /\ (gameState = "racing") ~> allCompetitorsPlaced
    /\ (gameState = "racing" /\ hasFinished) ~> (gameState = "finished")

(* every racer was placed and the race ended although Rosie was still held at
   the checkpoint she crossed on her way to the finish line *)
C40_Witness ==
    /\ gameState = "finished"
    /\ isPaused
    /\ allCompetitorsPlaced
    /\ rosieFinishPosition = 1
    /\ frames >= 2

====
